---------------------------- MODULE Spec2Model ----------------------------
(***************************************************************************)
(* A model of apodwall (src/apodwall.go): the picture-of-the-day resolver, *)
(* the keyword image resolver, the content cache and the wallpaper setter, *)
(* run as a sequence of process invocations that share one cache           *)
(* directory on disk.  The HTTP services, the file system's failures, the  *)
(* random source, the clock and the desktop commands are the environment:  *)
(* each action draws their answers from small sets.                        *)
(***************************************************************************)
EXTENDS Integers, Sequences, FiniteSets, TLC

VARIABLES
    pc,          \* position of the current invocation
    flags,       \* the parsed command line: [a, n, w]
    files,       \* the cache directory: path -> content, shared by all runs
    endDate,     \* time.Now() in fetchAPOD: [year, month, day, hour], UTC
    randomDays,  \* rand.Intn(daysDiff) in fetchAPOD
    randomDate,  \* startDate.AddDate(0, 0, randomDays)
    dateStr,     \* randomDate.Format("2006-01-02")
    body,        \* the response body read by the last metadata or search request
    apod,        \* the APOD struct of fetchAPOD
    href,        \* item.Href of the item chosen in fetchNASAImage
    imageURL,    \* the resolved URL
    imagePath,   \* the path downloadAndCacheImage returned
    events,      \* what this invocation did so far, in order
    stdout,      \* lines written to os.Stdout by this invocation
    stderr,      \* lines written to os.Stderr by this invocation
    exitCode,    \* -1 while running, then the process's exit status
    prevDl,      \* the call before lastDl, when it was for the same URL
    lastDl,      \* the most recent downloadAndCacheImage call (any run)
    got200,      \* URLs for which some image download was answered with status 200
    filesAtStart \* the cache directory as this invocation found it

vars == <<pc, flags, files, endDate, randomDays, randomDate, dateStr, body,
          apod, href, imageURL, imagePath, events, stdout, stderr, exitCode,
          prevDl, lastDl, got200, filesAtStart>>

-----------------------------------------------------------------------------
(* Bounds of the model. *)

\* In Spec, rand.Intn's answer in fetchAPOD is drawn among the first
\* MaxOffset offsets, so the metadata cache holds at most MaxOffset dates.
MaxOffset == 1
\* In SamplerSpec the clock is set to days of 1995 and of SamplerYear.
SamplerYear == 2026

-----------------------------------------------------------------------------
(* The time package, as fetchAPOD uses it.  A date is [year, month, day];  *)
(* an absolute day number counts days from 0001-01-01.                     *)

startDate == [year |-> 1995, month |-> 6, day |-> 16]

isLeap(year) == year % 4 = 0 /\ (year % 100 # 0 \/ year % 400 = 0)

\* daysBefore[m] is the number of days of a non-leap year before month m+1.
daysBefore == <<0, 31, 59, 90, 120, 151, 181, 212, 243, 273, 304, 334, 365>>

\* Days from 0001-01-01 to January 1 of `year`.
daysSinceEpoch(year) ==
    LET y == year - 1
    IN  365 * y + (y \div 4) - (y \div 100) + (y \div 400)

\* time.Date's day count; `day` may run past the month's end, and the
\* overflow carries into the following months (AddDate relies on it).
dateToAbs(year, month, day) ==
    daysSinceEpoch(year) + daysBefore[month]
        + (IF isLeap(year) /\ month >= 3 THEN 1 ELSE 0) + (day - 1)

\* Time.Date(): the calendar date of an absolute day number.
absDate(abs) ==
    LET n400 == abs \div 146097
        r400 == abs - 146097 * n400
        q100 == r400 \div 36524
        n100 == q100 - (q100 \div 4)
        r100 == r400 - 36524 * n100
        n4   == r100 \div 1461
        r4   == r100 - 1461 * n4
        q1   == r4 \div 365
        n1   == q1 - (q1 \div 4)
        yday == r4 - 365 * n1
        year == 1 + 400 * n400 + 100 * n100 + 4 * n4 + n1
        leap == isLeap(year)
        d    == IF leap /\ yday > 31 + 29 - 1 THEN yday - 1 ELSE yday
        m0   == d \div 31
        end  == daysBefore[m0 + 2]
        mon  == IF d >= end THEN m0 + 2 ELSE m0 + 1
        beg  == IF d >= end THEN end ELSE daysBefore[m0 + 1]
    IN  IF leap /\ yday = 31 + 29 - 1
        THEN [year |-> year, month |-> 2, day |-> 29]
        ELSE [year |-> year, month |-> mon, day |-> d - beg + 1]

\* t.AddDate(0, 0, days)
AddDate(t, days) == absDate(dateToAbs(t.year, t.month, t.day + days))

digit(n) == SubSeq("0123456789", n + 1, n + 1)

pad2(n) == digit((n \div 10) % 10) \o digit(n % 10)

pad4(n) == digit((n \div 1000) % 10) \o digit((n \div 100) % 10) \o pad2(n)

\* t.Format("2006-01-02")
Format(t) == pad4(t.year) \o "-" \o pad2(t.month) \o "-" \o pad2(t.day)

\* endDate.Sub(startDate).Hours(), for a clock read to the hour; startDate
\* is a midnight.  (Minutes and seconds never change the whole-day count.)
SubHours(t, u) ==
    (dateToAbs(t.year, t.month, t.day) - dateToAbs(u.year, u.month, u.day)) * 24
        + t.hour

\* A variant: the inclusive day count, both end days counted.
daysDiff_Inclusive(hours) == hours \div 24 + 1

\* int(hours / 24): whole days, the fraction dropped.
daysDiff(hours) == hours \div 24

\* rand.Intn(n): the values it can return; it panics when n <= 0.
Intn(n) == 0 .. (n - 1)

-----------------------------------------------------------------------------
(* Paths and the cache directory. *)

cacheSubdir == "apodwall"

\* filepath.Join of a directory and a name
Join(dir, name) == dir \o "/" \o name

\* initCacheDir: $XDG_CACHE_HOME/apodwall, or ~/.cache/apodwall without it
cacheDirOf(xdgCacheHome, homeDir) ==
    Join(IF xdgCacheHome = "" THEN Join(homeDir, ".cache") ELSE xdgCacheHome,
         cacheSubdir)

\* The model's environment: no XDG_CACHE_HOME, home directory /home/u.
cacheDir == cacheDirOf("", "/home/u")

\* filepath.Ext: the suffix from the last dot of the last path element on.
RECURSIVE extFrom(_, _)
extFrom(path, i) ==
    IF i < 1 \/ SubSeq(path, i, i) = "/" THEN ""
    ELSE IF SubSeq(path, i, i) = "." THEN SubSeq(path, i, Len(path))
    ELSE extFrom(path, i - 1)

Ext(path) == extFrom(path, Len(path))

\* The URLs the services of this model hand out.
UrlHD  == "https://x/h.jpg"
UrlStd == "https://x/s"
ImageURLs == {UrlHD, UrlStd}

\* fmt.Sprintf("%x", sha256.Sum256(url)[:8]): the digests of the model's URLs.
hashPrefix(url) ==
    CASE url = "https://x/h.jpg" -> "ed077d898dd42cde"
      [] url = "https://x/s"     -> "733470e232627c7d"
      [] url = ""                -> "e3b0c44298fc1c14"

\* downloadAndCacheImage's file name and path for a URL
imageCachePath(url) ==
    LET ext == IF Ext(url) = "" THEN ".jpg" ELSE Ext(url)
    IN  Join(cacheDir, "image_" \o hashPrefix(url) \o ext)

\* fetchAPOD's cache key and path for a date string
apodCachePath(date) == Join(cacheDir, "apod_" \o date \o ".json")

\* A variant: a write that reports what it is told to and stores nothing.
WriteFile_Dropped(fs, path, data, outcome) == fs

\* os.WriteFile(path, data): it succeeds; or it fails before the file is
\* opened; or it fails after the file was created or truncated, leaving a
\* prefix of data.
WriteOutcomes == {"ok", "open-failed", "short-write"}

\* A proper prefix of a JSON object's text: no JSON document.
Truncated == [kind |-> "garbage", val |-> <<>>]

WriteFile(fs, path, data, outcome) ==
    CASE outcome = "ok"          -> [p \in DOMAIN fs \cup {path} |->
                                        IF p = path THEN data ELSE fs[p]]
      [] outcome = "open-failed" -> fs
      [] outcome = "short-write" -> [p \in DOMAIN fs \cup {path} |->
                                        IF p = path THEN Truncated ELSE fs[p]]

\* os.Create + io.Copy in downloadAndCacheImage: both succeed; or Create
\* fails; or Create succeeds and the copy fails, leaving a partial file.
StoreOutcomes == {"ok", "create-failed", "copy-failed"}

\* The bytes of an image, or the prefix of them a failed copy leaves: the
\* program never looks at them.
ImageBytes == [kind |-> "image", val |-> <<>>]

-----------------------------------------------------------------------------
(* JSON.  A body is [kind, val]: an object (val: tag -> value), an array   *)
(* (val: a sequence) or bytes that are no JSON document.  A value is       *)
(* [t, v] with t its JSON type.                                            *)

jstr(s) == [t |-> "string", v |-> s]
jnum(n) == [t |-> "number", v |-> n]
jarr(q) == [t |-> "array", v |-> q]

Object(fields) == [kind |-> "object", val |-> fields]
Array(elems)   == [kind |-> "array", val |-> elems]
Garbage        == [kind |-> "garbage", val |-> <<>>]
\* A body whose read fails before its end (io.ReadAll returns an error).
Unreadable     == [kind |-> "unreadable", val |-> <<>>]

\* The APOD struct's fields that the resolver reads, with their JSON tags
\* (copyright, date, explanation and title are decoded and never used).
apodTags == [MediaType |-> "media_type", URL |-> "url", HDURL |-> "hdurl"]

zeroAPOD == [MediaType |-> "", URL |-> "", HDURL |-> ""]

\* json.Unmarshal(data, &apod): a syntax error changes nothing; a value of
\* the wrong type is skipped and reported, the other fields are still set;
\* a field the document lacks keeps its value.
unmarshalAPOD(data, into) ==
    IF data.kind = "garbage" THEN [err |-> TRUE, v |-> into]
    ELSE IF data.kind # "object" THEN [err |-> TRUE, v |-> into]
    ELSE LET doc == data.val
             has(f) == apodTags[f] \in DOMAIN doc
         IN  [err |-> \E f \in DOMAIN apodTags :
                          has(f) /\ doc[apodTags[f]].t # "string",
              v   |-> [f \in DOMAIN apodTags |->
                          IF has(f) /\ doc[apodTags[f]].t = "string"
                          THEN doc[apodTags[f]].v
                          ELSE into[f]]]

\* json.Unmarshal(body, &nasaResp), flattened to the two fields read:
\* collection.metadata.total_hits and the href of each of collection.items.
unmarshalNASA(data) ==
    IF data.kind # "object" THEN [err |-> TRUE, TotalHits |-> 0, Items |-> <<>>]
    ELSE LET doc == data.val
             hitsOk  == "total_hits" \notin DOMAIN doc \/ doc.total_hits.t = "number"
             itemsOk == "items" \notin DOMAIN doc \/ doc.items.t = "array"
         IN  [err       |-> ~(hitsOk /\ itemsOk),
              TotalHits |-> IF "total_hits" \in DOMAIN doc /\ hitsOk
                            THEN doc.total_hits.v ELSE 0,
              Items     |-> IF "items" \in DOMAIN doc /\ itemsOk
                            THEN doc.items.v ELSE <<>>]

\* json.Unmarshal(collBody, &imageURLs): a JSON array of strings
unmarshalCollection(data) ==
    IF data.kind # "array" THEN [err |-> TRUE, v |-> <<>>]
    ELSE [err |-> FALSE, v |-> data.val]

-----------------------------------------------------------------------------
(* The services' answers.  A response is [err, status, body]: err is a     *)
(* transport failure (no response at all).                                 *)

\* http.StatusOK
StatusOK == 200

\* The status codes the services answer with.
Statuses == {200, 404}

NoResponse == [err |-> TRUE, status |-> 0, body |-> Garbage]

Responses(bodies) ==
    {NoResponse} \cup
    {[err |-> FALSE, status |-> s, body |-> b] : s \in Statuses, b \in bodies}

\* Picture-of-the-day documents: an image with both URLs, an image with the
\* standard URL only, a video, a document whose media_type is no string.
APODBodies ==
    { Object([media_type |-> jstr("image"), url |-> jstr(UrlStd), hdurl |-> jstr(UrlHD)]),
      Object([media_type |-> jstr("image"), url |-> jstr(UrlStd)]),
      Object([media_type |-> jstr("video"), url |-> jstr(UrlStd)]),
      Object([media_type |-> jnum(5), url |-> jstr(UrlStd)]),
      Garbage, Unreadable }

Manifest1 == "https://x/m1.json"
Manifest2 == "https://x/m2.json"

\* Search documents: hits and two items, no hits, hits and no items, no
\* hits and one item, no document.
SearchBodies ==
    { Object([total_hits |-> jnum(2), items |-> jarr(<<Manifest1, Manifest2>>)]),
      Object([total_hits |-> jnum(0), items |-> jarr(<<>>)]),
      Object([total_hits |-> jnum(2), items |-> jarr(<<>>)]),
      Object([total_hits |-> jnum(0), items |-> jarr(<<Manifest1>>)]),
      Garbage, Unreadable }

ManifestBodies ==
    { Array(<<UrlHD, UrlStd>>), Array(<<UrlStd>>), Array(<<>>), Garbage,
      Unreadable }

-----------------------------------------------------------------------------
(* Bookkeeping of what an invocation did. *)

Ev(ev, what, status) == [ev |-> ev, what |-> what, status |-> status]

Line(kind, text) == [kind |-> kind, text |-> text]

\* A downloadAndCacheImage call: what it was given, what it returned, how
\* many HTTP requests it issued and the answer to its request (-1: none
\* issued, 0: no response, else the status code).
NoCall == [called |-> FALSE, url |-> "", path |-> "", err |-> FALSE,
           requests |-> 0, status |-> -1]

NoDate == [year |-> 0, month |-> 0, day |-> 0]
NoTime == [year |-> 0, month |-> 0, day |-> 0, hour |-> 0]
NoFiles == [p \in {} |-> Garbage]

\* A process as the operating system starts it.
Fresh ==
    /\ flags = [a |-> FALSE, n |-> FALSE, w |-> FALSE]
    /\ endDate = NoTime
    /\ randomDays = 0
    /\ randomDate = NoDate
    /\ dateStr = ""
    /\ body = Garbage
    /\ apod = zeroAPOD
    /\ href = ""
    /\ imageURL = ""
    /\ imagePath = ""
    /\ events = <<>>
    /\ stdout = <<>>
    /\ stderr = <<>>
    /\ exitCode = -1

Init ==
    /\ pc = "main"
    /\ Fresh
    /\ files = NoFiles
    /\ filesAtStart = NoFiles
    /\ prevDl = NoCall
    /\ lastDl = NoCall
    /\ got200 = {}

-----------------------------------------------------------------------------
(* The decisions of the code. *)

\* A variant: no status check.
statusOK_Any(status) == TRUE

\* resp.StatusCode != http.StatusOK is an error
statusOK(status) == status = StatusOK

\* A variant: no media-type check.
isImage_Any(record) == TRUE

\* fetchAPOD: apod.MediaType != "image" is an error
isImage(record) == record.MediaType = "image"

\* A variant: the standard URL always.
chooseURL_Standard(record) == record.URL

\* fetchAPOD: imageURL := apod.URL; if apod.HDURL != "" { imageURL = apod.HDURL }
chooseURL(record) == IF record.HDURL # "" THEN record.HDURL ELSE record.URL

\* A variant: the write's error is returned.
afterWrite_Fatal(outcome) ==
    [err |-> IF outcome # "ok" THEN "failed to cache response" ELSE "",
     warn |-> FALSE]

\* fetchAndCacheAPOD after os.WriteFile: the error it returns ("" is nil)
\* and whether it logs the warning.
afterWrite(outcome) == [err |-> "", warn |-> outcome # "ok"]

\* A variant: no check of the hit count.
noHits_Never(totalHits) == FALSE

\* fetchNASAImage: totalHits == 0 is an error
noHits(totalHits) == totalHits = 0

\* fetchNASAImage: len(items) == 0 is an error
noItems(items) == Len(items) = 0

\* A variant: the existence check looks at a path that never exists.
cacheHit_Never(fs, path) == FALSE

\* downloadAndCacheImage: os.Stat(cachePath) returns no error.  Stat and
\* ReadFile succeed on exactly the files that exist.
cacheHit(fs, path) == path \in DOMAIN fs

\* fetchAPOD: os.ReadFile(cachePath) returns no error
readable(fs, path) == path \in DOMAIN fs

\* main: the line it prints for the error a pipeline returned
errLine(msg) ==
    Line("error", (IF flags.a THEN "Error fetching APOD: "
                   ELSE "Error fetching NASA image: ") \o msg)

\* A pipeline returns err, main prints it to os.Stderr and calls os.Exit(1).
Fail(msg) ==
    /\ pc' = "exited"
    /\ exitCode' = 1
    /\ stderr' = Append(stderr, errLine(msg))

\* A pipeline returns nil and main returns.
Succeed ==
    /\ pc' = "exited"
    /\ exitCode' = 0

\* fmt.Fprintln(os.Stderr, imageURL), then the setWallpaper branch
Emit(url) ==
    /\ imageURL' = url
    /\ stderr' = Append(stderr, Line("url", url))
    /\ IF flags.w
       THEN pc' = "downloadAndCacheImage" /\ exitCode' = exitCode
       ELSE Succeed

-----------------------------------------------------------------------------
(* The actions. *)

\* main of a new invocation: flags, cache directory, dispatch.
Main ==
    /\ pc \in {"main", "exited"}
    /\ \E a \in BOOLEAN, n \in BOOLEAN, w \in BOOLEAN, mkdirOk \in BOOLEAN :
        /\ flags' = [a |-> a, n |-> n, w |-> w]
        /\ IF ~mkdirOk
           THEN /\ pc' = "exited"
                /\ exitCode' = 1
                /\ stderr' = <<Line("fatal", "could not create cache dir")>>
           ELSE IF a
           THEN pc' = "fetchAPOD" /\ exitCode' = -1 /\ stderr' = <<>>
           ELSE IF n
           THEN pc' = "fetchNASAImage" /\ exitCode' = -1 /\ stderr' = <<>>
           ELSE /\ pc' = "exited"
                /\ exitCode' = 1
                /\ stderr' = <<Line("usage", "Usage of apodwall:")>>
    /\ endDate' = NoTime
    /\ randomDays' = 0
    /\ randomDate' = NoDate
    /\ dateStr' = ""
    /\ body' = Garbage
    /\ apod' = zeroAPOD
    /\ href' = ""
    /\ imageURL' = ""
    /\ imagePath' = ""
    /\ events' = <<>>
    /\ stdout' = <<>>
    /\ filesAtStart' = files
    /\ UNCHANGED <<files, prevDl, lastDl, got200>>

\* fetchAPOD up to its call of fetchAndCacheAPOD: the date sampler and the
\* read of the metadata cache.  Nows are the clock's readings and Offsets
\* the answers of rand.Intn that the specification enumerates.
FetchAPODWith(Nows, Offsets) ==
    /\ pc = "fetchAPOD"
    /\ \E now \in Nows :
        LET dd == daysDiff(SubHours(now, startDate))
        IN  /\ endDate' = now
            /\ IF dd <= 0
               THEN \* rand.Intn panics
                    /\ pc' = "exited"
                    /\ exitCode' = 2
                    /\ stderr' = Append(stderr,
                                   Line("panic", "panic: invalid argument to Intn"))
                    /\ UNCHANGED <<randomDays, randomDate, dateStr, apod, events>>
               ELSE \E r \in Intn(dd) \cap Offsets :
                    LET date      == AddDate(startDate, r)
                        str       == Format(date)
                        cachePath == apodCachePath(str)
                        cached    == readable(files, cachePath)
                        parsed    == unmarshalAPOD(files[cachePath], apod)
                    IN  /\ randomDays' = r
                        /\ randomDate' = date
                        /\ dateStr' = str
                        /\ events' = Append(events,
                                       Ev("read", cachePath, IF cached THEN 1 ELSE 0))
                        /\ IF cached
                           THEN /\ apod' = parsed.v
                                /\ pc' = IF parsed.err THEN "fetchAndCacheAPOD"
                                         ELSE "resolveAPOD"
                           ELSE /\ apod' = apod
                                /\ pc' = "fetchAndCacheAPOD"
                        /\ UNCHANGED <<exitCode, stderr>>
    /\ UNCHANGED <<flags, files, body, href, imageURL, imagePath, stdout,
                   prevDl, lastDl, got200, filesAtStart>>

\* The clock of Spec: 2026-11-02, 12:00 UTC.
SpecNows == {[year |-> 2026, month |-> 11, day |-> 2, hour |-> 12]}

\* The answers of rand.Intn enumerated in Spec.
SpecOffsets == 0 .. (MaxOffset - 1)

FetchAPOD == FetchAPODWith(SpecNows, SpecOffsets)

\* fetchAndCacheAPOD, and fetchAPOD's return when it fails.
FetchAndCacheAPOD ==
    /\ pc = "fetchAndCacheAPOD"
    /\ \E resp \in Responses(APODBodies), wr \in WriteOutcomes :
        LET cachePath == apodCachePath(dateStr)
            parsed    == unmarshalAPOD(resp.body, apod)
            req       == Ev("http", "apod", resp.status)
            written   == afterWrite(wr)
        IN  IF resp.err
            THEN /\ Fail("failed to fetch APOD")
                 /\ events' = Append(events, req)
                 /\ UNCHANGED <<files, body, apod>>
            ELSE IF ~statusOK(resp.status)
            THEN /\ Fail("API returned status")
                 /\ events' = Append(events, req)
                 /\ UNCHANGED <<files, body, apod>>
            ELSE IF resp.body = Unreadable
            THEN /\ Fail("failed to read response")
                 /\ events' = Append(events, req)
                 /\ UNCHANGED <<files, body, apod>>
            ELSE IF parsed.err
            THEN /\ Fail("failed to parse JSON")
                 /\ events' = Append(events, req)
                 /\ body' = resp.body
                 /\ apod' = parsed.v
                 /\ files' = files
            ELSE /\ body' = resp.body
                 /\ apod' = parsed.v
                 /\ files' = WriteFile(files, cachePath, resp.body, wr)
                 /\ events' = events \o
                        <<req, Ev("write", cachePath, IF wr = "ok" THEN 1 ELSE 0)>>
                 /\ IF written.err # ""
                    THEN Fail(written.err)
                    ELSE /\ pc' = "resolveAPOD"
                         /\ exitCode' = exitCode
                         /\ stderr' = IF written.warn
                                      THEN Append(stderr, Line("warning",
                                             "warning: failed to cache response"))
                                      ELSE stderr
    /\ UNCHANGED <<flags, endDate, randomDays, randomDate, dateStr, href,
                   imageURL, imagePath, stdout, prevDl, lastDl, got200,
                   filesAtStart>>

\* fetchAPOD from the media-type check to the setWallpaper branch.
ResolveAPOD ==
    /\ pc = "resolveAPOD"
    /\ IF ~isImage(apod)
       THEN /\ Fail("APOD is not an image")
            /\ UNCHANGED <<imageURL, events>>
       ELSE /\ Emit(chooseURL(apod))
            /\ events' = Append(events, Ev("emit", chooseURL(apod), 0))
    /\ UNCHANGED <<flags, files, endDate, randomDays, randomDate, dateStr, body,
                   apod, href, imagePath, stdout, prevDl, lastDl, got200,
                   filesAtStart>>

\* fetchNASAImage up to the choice of an item.
FetchNASAImage ==
    /\ pc = "fetchNASAImage"
    /\ \E resp \in Responses(SearchBodies) :
        LET parsed == unmarshalNASA(resp.body)
            req    == Ev("http", "search", resp.status)
        IN  /\ events' = Append(events, req)
            /\ IF resp.err
               THEN Fail("failed to fetch NASA images") /\ UNCHANGED <<body, href>>
               ELSE IF ~statusOK(resp.status)
               THEN Fail("API returned status") /\ UNCHANGED <<body, href>>
               ELSE IF resp.body = Unreadable
               THEN Fail("failed to read response") /\ UNCHANGED <<body, href>>
               ELSE /\ body' = resp.body
                    /\ IF parsed.err
                       THEN Fail("failed to parse JSON") /\ href' = href
                       ELSE IF noHits(parsed.TotalHits)
                       THEN Fail("no images found for query") /\ href' = href
                       ELSE IF noItems(parsed.Items)
                       THEN Fail("no items in response") /\ href' = href
                       ELSE \E randomIdx \in Intn(Len(parsed.Items)) :
                               /\ href' = parsed.Items[randomIdx + 1]
                               /\ pc' = "fetchCollection"
                               /\ UNCHANGED <<exitCode, stderr>>
    /\ UNCHANGED <<flags, files, endDate, randomDays, randomDate, dateStr, apod,
                   imageURL, imagePath, stdout, prevDl, lastDl, got200,
                   filesAtStart>>

\* fetchNASAImage from the manifest request to the setWallpaper branch.
FetchCollection ==
    /\ pc = "fetchCollection"
    /\ \E resp \in Responses(ManifestBodies) :
        LET parsed == unmarshalCollection(resp.body)
            req    == Ev("http", "manifest", resp.status)
        IN  IF resp.err
            THEN /\ Fail("failed to fetch image collection")
                 /\ events' = Append(events, req)
                 /\ imageURL' = imageURL
            ELSE IF resp.body = Unreadable
            THEN /\ Fail("failed to read collection")
                 /\ events' = Append(events, req)
                 /\ imageURL' = imageURL
            ELSE IF parsed.err
            THEN /\ Fail("failed to parse collection")
                 /\ events' = Append(events, req)
                 /\ imageURL' = imageURL
            ELSE IF Len(parsed.v) = 0
            THEN /\ Fail("no image URLs in collection")
                 /\ events' = Append(events, req)
                 /\ imageURL' = imageURL
            ELSE /\ Emit(parsed.v[1])
                 /\ events' = events \o <<req, Ev("emit", parsed.v[1], 0)>>
    /\ UNCHANGED <<flags, files, endDate, randomDays, randomDate, dateStr, body,
                   apod, href, imagePath, stdout, prevDl, lastDl, got200,
                   filesAtStart>>

\* downloadAndCacheImage, and its caller's return when it fails.
DownloadAndCacheImage ==
    /\ pc = "downloadAndCacheImage"
    /\ \E resp \in Responses({ImageBytes}), st \in StoreOutcomes :
        LET cachePath == imageCachePath(imageURL)
            call      == Ev("download", imageURL, 0)
            req       == Ev("http", "image", resp.status)
            hit       == cacheHit(files, cachePath)
            failed(msg) ==
                /\ Fail("failed to download image: " \o msg)
                /\ imagePath' = imagePath
            returned  == [called |-> TRUE, url |-> imageURL, path |-> imagePath',
                          err |-> pc' = "exited",
                          requests |-> Cardinality({i \in DOMAIN events' :
                                           /\ i > Len(events)
                                           /\ events'[i].ev = "http"}),
                          status |-> IF hit THEN -1 ELSE resp.status]
        IN  /\ IF hit
               THEN /\ imagePath' = cachePath
                    /\ events' = Append(events, call)
                    /\ pc' = "setWallpaperImage"
                    /\ UNCHANGED <<files, exitCode, stderr>>
               ELSE /\ events' = events \o <<call, req>>
                    /\ IF resp.err
                       THEN failed("failed to download image") /\ files' = files
                       ELSE IF ~statusOK(resp.status)
                       THEN failed("failed to download image, status") /\ files' = files
                       ELSE IF st = "create-failed"
                       THEN failed("failed to create cache file") /\ files' = files
                       ELSE IF st = "copy-failed"
                       THEN /\ failed("failed to save image")
                            /\ files' = WriteFile(files, cachePath, ImageBytes, "ok")
                       ELSE /\ files' = WriteFile(files, cachePath, resp.body, "ok")
                            /\ imagePath' = cachePath
                            /\ pc' = "setWallpaperImage"
                            /\ UNCHANGED <<exitCode, stderr>>
            /\ prevDl' = IF lastDl.url = imageURL THEN lastDl ELSE NoCall
            /\ lastDl' = returned
            /\ got200' = IF ~hit /\ ~resp.err /\ resp.status = 200
                         THEN got200 \cup {imageURL} ELSE got200
    /\ UNCHANGED <<flags, endDate, randomDays, randomDate, dateStr, body, apod,
                   href, imageURL, stdout, filesAtStart>>

\* runtime.GOOS of the model's environment
GOOS == "linux"

\* The commands setWallpaperImage may run on a platform; each exits with
\* success or not.
Commands(goos) ==
    CASE goos = "linux"  -> {"gsettings picture-uri", "gsettings picture-uri-dark",
                             "qdbus", "xfconf-query", "feh"}
      [] goos = "darwin" -> {"osascript"}
      [] OTHER           -> {}

tryGnome(ran) == ran["gsettings picture-uri"] /\ ran["gsettings picture-uri-dark"]
tryKDE(ran)   == ran["qdbus"]
tryXFCE(ran)  == ran["xfconf-query"]
tryFeh(ran)   == ran["feh"]

\* setWallpaperImage's error ("" is nil) on a platform, given how the
\* commands end.
setWallpaperImage(goos, ran) ==
    CASE goos = "linux"   -> IF tryGnome(ran) \/ tryKDE(ran) \/ tryXFCE(ran)
                                \/ tryFeh(ran)
                             THEN ""
                             ELSE "no supported desktop environment found"
      [] goos = "darwin"  -> IF ran["osascript"] THEN "" ELSE "exit status 1"
      [] goos = "windows" -> "not implemented"
      [] OTHER            -> "unsupported OS: " \o goos

\* setWallpaperImage, and its caller's return.
SetWallpaperImage ==
    /\ pc = "setWallpaperImage"
    /\ \E ran \in [Commands(GOOS) -> BOOLEAN] :
        LET err == setWallpaperImage(GOOS, ran)
        IN  /\ events' = Append(events, Ev("wallpaper", imagePath, 0))
            /\ IF err = ""
               THEN Succeed /\ stderr' = stderr
               ELSE Fail("failed to set wallpaper: " \o err)
    /\ UNCHANGED <<flags, files, endDate, randomDays, randomDate, dateStr, body,
                   apod, href, imageURL, imagePath, stdout, prevDl, lastDl,
                   got200, filesAtStart>>

Next ==
    \/ Main
    \/ FetchAPOD
    \/ FetchAndCacheAPOD
    \/ ResolveAPOD
    \/ FetchNASAImage
    \/ FetchCollection
    \/ DownloadAndCacheImage
    \/ SetWallpaperImage

Spec == Init /\ [][Next]_vars

-----------------------------------------------------------------------------
(* The date sampler alone: fetchAPOD's first step under every clock reading *)
(* of SamplerNows and every answer of rand.Intn.                            *)

\* Clock readings: the first days after startDate, at the start and the end
\* of the day, and days of SamplerYear around month ends and a leap day.
SamplerNows ==
    {[year |-> 1995, month |-> 6, day |-> d, hour |-> h] :
        d \in 16 .. 18, h \in {0, 1, 23}}
    \cup
    {[year |-> SamplerYear, month |-> m, day |-> d, hour |-> h] :
        m \in {3, 11}, d \in {1, 2}, h \in {0, 23}}

SamplerInit ==
    /\ pc = "fetchAPOD"
    /\ flags = [a |-> TRUE, n |-> FALSE, w |-> FALSE]
    /\ endDate = NoTime
    /\ randomDays = 0
    /\ randomDate = NoDate
    /\ dateStr = ""
    /\ body = Garbage
    /\ apod = zeroAPOD
    /\ href = ""
    /\ imageURL = ""
    /\ imagePath = ""
    /\ events = <<>>
    /\ stdout = <<>>
    /\ stderr = <<>>
    /\ exitCode = -1
    /\ files = NoFiles
    /\ filesAtStart = NoFiles
    /\ prevDl = NoCall
    /\ lastDl = NoCall
    /\ got200 = {}

SampleDate == FetchAPODWith(SamplerNows, Nat)

SamplerNext == SampleDate

SamplerSpec == SamplerInit /\ [][SamplerNext]_vars

-----------------------------------------------------------------------------
(* What the properties below read off a state. *)

HttpEvents == {i \in DOMAIN events : events[i].ev = "http"}

RequestsOf(what) == {i \in HttpEvents : events[i].what = what}

EventsOf(kinds) == {i \in DOMAIN events : events[i].ev \in kinds}

\* The lines of a channel that carry a resolved URL, and those that carry
\* an error, a warning or another status message.
UrlLines(ch) == {i \in DOMAIN ch : ch[i].kind = "url"}

MessageLines(ch) == {i \in DOMAIN ch : ch[i].kind # "url"}

\* fetchAPOD has sampled its date in this invocation.
Sampled == flags.a /\ dateStr # ""

\* The metadata cache held a parseable response for the sampled date when
\* this invocation started.
CachedAtStart ==
    /\ apodCachePath(dateStr) \in DOMAIN filesAtStart
    /\ ~unmarshalAPOD(filesAtStart[apodCachePath(dateStr)], zeroAPOD).err

\* The metadata request of this invocation was answered with status 200 and
\* a body that parses.
FetchedOK ==
    /\ \E i \in RequestsOf("apod") : events[i].status = 200
    /\ ~unmarshalAPOD(body, zeroAPOD).err

\* The picture-of-the-day record this invocation resolved: from the cache,
\* or from the response.
Resolved == Sampled /\ (CachedAtStart \/ FetchedOK)

Record ==
    IF CachedAtStart
    THEN unmarshalAPOD(filesAtStart[apodCachePath(dateStr)], zeroAPOD).v
    ELSE unmarshalAPOD(body, zeroAPOD).v

\* The cache write of this invocation failed.
WriteFailed == \E i \in EventsOf({"write"}) : events[i].status = 0

WriteSucceeded == \E i \in EventsOf({"write"}) : events[i].status = 1

-----------------------------------------------------------------------------
(* C1 *)

\* C1 as stated: whenever downloadAndCacheImage is called twice in sequence
\* for one URL, both calls return the same path and the second call issues
\* no HTTP request.
C1_AsStated ==
    (prevDl.called /\ lastDl.called /\ prevDl.url = lastDl.url)
        => (lastDl.path = prevDl.path /\ lastDl.requests = 0)

\* C1, amended: when downloadAndCacheImage is called twice in sequence for
\* one URL and the first call returns a path without error, the second call
\* returns the same path without error and issues no HTTP request.
C1_Idempotent ==
    (prevDl.called /\ lastDl.called /\ prevDl.url = lastDl.url /\ ~prevDl.err)
        => /\ ~lastDl.err
           /\ lastDl.path = prevDl.path
           /\ lastDl.path = imageCachePath(lastDl.url)
           /\ lastDl.requests = 0

\* A first call that downloaded its image, followed by a second call for
\* the same URL.
C1_Witness ==
    /\ prevDl.called /\ ~prevDl.err /\ prevDl.requests = 1
    /\ lastDl.called /\ lastDl.url = prevDl.url

-----------------------------------------------------------------------------
(* C2 *)

\* C2: no output channel receives both the resolved URL and an error,
\* warning or status line.
C2_DistinctChannels ==
    /\ ~(UrlLines(stdout) # {} /\ MessageLines(stdout) # {})
    /\ ~(UrlLines(stderr) # {} /\ MessageLines(stderr) # {})

-----------------------------------------------------------------------------
(* C3 *)

\* C3: an HTTP request answered with a non-success status is the last thing
\* the invocation does: it has failed, and no request, emission, download
\* or wallpaper call follows.
C3_NonSuccessFails ==
    \A i \in HttpEvents :
        events[i].status \notin {0, 200}
            => /\ i = Len(events)
               /\ pc = "exited"
               /\ exitCode = 1
               /\ UrlLines(stdout) = {} /\ UrlLines(stderr) = {}

-----------------------------------------------------------------------------
(* C4 *)

\* C4: when the picture-of-the-day record resolved by fetchAPOD is no
\* image, fetchAPOD returns an error, emits no URL, and calls neither
\* downloadAndCacheImage nor the wallpaper setter, whatever setWallpaper is.
C4_NonImageFails ==
    (Resolved /\ Record.MediaType # "image")
        => /\ pc \in {"resolveAPOD", "exited"}
           /\ pc = "exited" => exitCode = 1
           /\ UrlLines(stdout) = {} /\ UrlLines(stderr) = {}
           /\ EventsOf({"emit", "download", "wallpaper"}) = {}
           /\ RequestsOf("image") = {}

\* A video record read from the cache, with the wallpaper flag set, after
\* fetchAPOD returned.
C4_Witness ==
    /\ Resolved /\ CachedAtStart /\ Record.MediaType = "video"
    /\ flags.w /\ pc = "exited"

-----------------------------------------------------------------------------
(* C5 *)

\* The search request was answered with status 200 and a document that
\* reports no hits or holds no items.
NoSearchResults ==
    /\ ~flags.a /\ flags.n
    /\ \E i \in RequestsOf("search") : events[i].status = 200
    /\ ~unmarshalNASA(body).err
    /\ (unmarshalNASA(body).TotalHits = 0 \/ Len(unmarshalNASA(body).Items) = 0)

\* C5: when the search response reports zero hits or holds no items,
\* fetchNASAImage has failed with the search request as its only HTTP
\* request, and emitted no URL.
C5_NoResultsFails ==
    NoSearchResults
        => /\ pc = "exited" /\ exitCode = 1
           /\ Cardinality(HttpEvents) = 1
           /\ RequestsOf("manifest") = {}
           /\ UrlLines(stdout) = {} /\ UrlLines(stderr) = {}
           /\ EventsOf({"emit"}) = {}

\* A search response with zero hits and yet an item, after the return.
C5_Witness ==
    /\ NoSearchResults
    /\ unmarshalNASA(body).TotalHits = 0
    /\ Len(unmarshalNASA(body).Items) > 0
    /\ pc = "exited"

-----------------------------------------------------------------------------
(* C6 *)

\* fetchAPOD is past its cache read and its call of fetchAndCacheAPOD.
PastFetch == Sampled /\ pc \in {"resolveAPOD", "downloadAndCacheImage",
                                 "setWallpaperImage", "exited"}

\* The parts of C6 that hold as stated: a parseable cached response means
\* no metadata request and the cached record; otherwise exactly one request.
C6_HitOrOneRequest ==
    /\ (Sampled /\ CachedAtStart)
          => /\ RequestsOf("apod") = {}
             /\ pc # "fetchAndCacheAPOD"
             /\ apod = Record
    /\ (PastFetch /\ ~CachedAtStart)
          => Cardinality(RequestsOf("apod")) = 1

\* C6 as stated: in addition, a metadata request that succeeds (status 200,
\* parseable body) leaves the raw response under the date's cache key.
C6_AsStated ==
    /\ C6_HitOrOneRequest
    /\ (PastFetch /\ ~CachedAtStart /\ FetchedOK)
          => /\ apodCachePath(dateStr) \in DOMAIN files
             /\ files[apodCachePath(dateStr)] = body

\* C6, amended: a metadata request that succeeds leaves the raw response
\* under the date's cache key when the cache write succeeds, so that a later
\* run sampling that date makes no metadata request; when the write fails,
\* no parseable response is stored for the date.
C6_MetadataCache ==
    /\ C6_HitOrOneRequest
    /\ (PastFetch /\ ~CachedAtStart /\ FetchedOK)
          => /\ WriteSucceeded \/ WriteFailed
             /\ WriteSucceeded
                   => /\ apodCachePath(dateStr) \in DOMAIN files
                      /\ files[apodCachePath(dateStr)] = body
             /\ WriteFailed
                   => \/ apodCachePath(dateStr) \notin DOMAIN files
                      \/ unmarshalAPOD(files[apodCachePath(dateStr)], zeroAPOD).err

\* A run that finds, for the date it samples, the response an earlier run
\* stored, and makes no request.
C6_Witness ==
    /\ Sampled /\ CachedAtStart /\ pc = "exited" /\ exitCode = 0
    /\ RequestsOf("apod") = {}

-----------------------------------------------------------------------------
(* C7 *)

\* C7: a failed cache write is no error: fetchAndCacheAPOD returns the
\* parsed record and logs a warning, and fetchAPOD goes on to the media-type
\* check and the emission; for an image record with setWallpaper false it
\* emits the URL and returns success.
C7_WriteFailureIsWarning ==
    (flags.a /\ WriteFailed)
        => /\ \E i \in DOMAIN stderr : stderr[i].kind = "warning"
           /\ apod = unmarshalAPOD(body, zeroAPOD).v
           /\ (pc = "exited" /\ apod.MediaType = "image")
                 => UrlLines(stdout) # {} \/ UrlLines(stderr) # {}
           /\ (pc = "exited" /\ apod.MediaType = "image" /\ ~flags.w)
                 => exitCode = 0
           /\ (pc = "exited" /\ apod.MediaType # "image")
                 => exitCode = 1

\* A run whose cache write failed and which returned success.
C7_Witness ==
    /\ flags.a /\ ~flags.w /\ WriteFailed
    /\ pc = "exited" /\ exitCode = 0

-----------------------------------------------------------------------------
(* C8 *)

\* The URL C8 names for a record.
PreferredURL(record) ==
    IF record.HDURL # "" THEN record.HDURL ELSE record.URL

\* C8: for an image record, the URL fetchAPOD emits and hands to the content
\* cache is the high-definition URL when present, else the standard URL,
\* and it is emitted whether or not setWallpaper is set.
C8_PreferredURL ==
    (Resolved /\ Record.MediaType = "image")
        => /\ \A i \in UrlLines(stdout) : stdout[i].text = PreferredURL(Record)
           /\ \A i \in UrlLines(stderr) : stderr[i].text = PreferredURL(Record)
           /\ \A i \in EventsOf({"emit", "download"}) :
                 events[i].what = PreferredURL(Record)
           /\ apod = Record
           /\ pc # "resolveAPOD"
                 => Cardinality(UrlLines(stdout)) + Cardinality(UrlLines(stderr)) = 1
           /\ (pc \in {"setWallpaperImage", "exited"} /\ flags.w)
                 => EventsOf({"download"}) # {}
           /\ ~flags.w => EventsOf({"download"}) = {}

\* An image record with both URLs, resolved with the wallpaper flag set and
\* handed to the content cache.
C8_Witness ==
    /\ Resolved /\ Record.MediaType = "image"
    /\ Record.HDURL = UrlHD /\ Record.URL = UrlStd
    /\ flags.w /\ lastDl.called /\ lastDl.url = UrlHD
    /\ pc = "exited"

-----------------------------------------------------------------------------
(* C9 *)

\* The calendar, written down apart from the time package's arithmetic.
MonthLength(year, month) ==
    IF month = 2
    THEN IF year % 4 = 0 /\ (year % 100 # 0 \/ year % 400 = 0) THEN 29 ELSE 28
    ELSE IF month \in {4, 6, 9, 11} THEN 30 ELSE 31

CalendarDates(firstYear, lastYear) ==
    {date \in [year : firstYear .. lastYear, month : 1 .. 12, day : 1 .. 31] :
        date.day <= MonthLength(date.year, date.month)}

Before(a, b) ==
    \/ a.year < b.year
    \/ a.year = b.year /\ a.month < b.month
    \/ a.year = b.year /\ a.month = b.month /\ a.day < b.day

\* The calendar date (UTC) of the clock reading.
Today == [year |-> endDate.year, month |-> endDate.month, day |-> endDate.day]

\* The dates the sampler can produce under the clock reading of this state.
Producible ==
    {AddDate(startDate, r) : r \in Intn(daysDiff(SubHours(endDate, startDate)))}

\* C9: under a clock later than 1995-06-16, the sampled date is a calendar
\* date in [startDate, today), and every calendar date strictly between
\* startDate and today is the sampled date for some offset.  (The second
\* part is evaluated once per clock reading, in the states of offset 0.)
C9_Sampler ==
    (pc # "fetchAPOD" /\ exitCode # 2)
        => /\ ~Before(randomDate, startDate)
           /\ Before(randomDate, Today)
           /\ randomDate \in CalendarDates(randomDate.year, randomDate.year)
           /\ randomDays = 0 =>
                 LET producible == Producible
                 IN  \A date \in CalendarDates(startDate.year, endDate.year) :
                         (Before(startDate, date) /\ Before(date, Today))
                             => date \in producible

\* The clock reads March 1 of SamplerYear and the sampler produced the day
\* before it.
C9_Witness ==
    /\ pc # "fetchAPOD" /\ exitCode # 2
    /\ Today = [year |-> SamplerYear, month |-> 3, day |-> 1]
    /\ randomDate.month = 2 /\ randomDate.year = SamplerYear
    /\ randomDate.day = MonthLength(SamplerYear, 2)

-----------------------------------------------------------------------------
(* C10 *)

\* A call that ended in a transport error or a non-success status.
Rejected(call) == call.called /\ call.status \notin {-1, 200}

\* C10, in a state: a cache file exists for URL u only if some call for u
\* was answered with status 200; a rejected call returns an error and no
\* path; and the call for u that follows a rejected call for u issues an
\* HTTP request.
C10_State ==
    /\ \A u \in ImageURLs : imageCachePath(u) \in DOMAIN files => u \in got200
    /\ Rejected(lastDl) => lastDl.err /\ lastDl.path = ""
    /\ (Rejected(prevDl) /\ lastDl.called /\ lastDl.url = prevDl.url)
          => lastDl.requests = 1

\* C10, in a step: a rejected call leaves the cache directory as it was.
C10_Step ==
    (pc = "downloadAndCacheImage" /\ pc' # pc /\ Rejected(lastDl'))
        => files' = files

\* C10: the content cache is never populated by a rejected download.
C10_NoRejectedEntry == [](C10_State) /\ [][C10_Step]_vars

\* Two calls in sequence for one URL, the first of them rejected.
C10_Witness ==
    /\ Rejected(prevDl) /\ lastDl.called /\ lastDl.url = prevDl.url
    /\ imageCachePath(lastDl.url) \in DOMAIN files

=============================================================================
